---- MODULE Spec2Model ----
(***************************************************************************)
(* Model of src/agent.py: the book_room function tool of the Assistant     *)
(* agent (credential loading, authorization, spreadsheet lookup, row       *)
(* append, exception handlers) and the my_agent session handler (session   *)
(* start with its noise-cancellation selector, pinned greeting, connect).  *)
(* The language model, the environment variable and the spreadsheet        *)
(* service are the environment: their outputs are drawn nondeterministically.*)
(***************************************************************************)
EXTENDS Integers, Sequences, FiniteSets, TLC

VARIABLES env, store, nextId, bk, ip, events, room, said, connected, nc, pkind, conv

vars == <<env, store, nextId, bk, ip, events, room, said, connected, nc, pkind, conv>>

(* ------------------------------ bounds -------------------------------- *)

\* number of concurrent call sessions (jobs) of the server
NumSessions == 2
\* total number of book_room invocations, over all sessions
MaxBookings == 2
\* number of outputs (utterance steps and tool calls) of the LLM in one call
MaxTurns == 3

Sessions == 1..NumSessions

(* --------------------------- configuration ---------------------------- *)

SHEET_NAME == "Hotel booking"

\* the spreadsheets of the drive: the booking sheet and an unrelated one
Titles == {SHEET_NAME, "Room rates"}

MSG_SUCCESS == "Booking successfully saved to the system."
MSG_MISSING == "Error: System configuration error (Missing Credentials)."
MSG_INVALID == "Error: System configuration error (Invalid Credentials)."
MSG_GENERIC == "An error occurred while saving the booking."

GREETING == "Namaste! Welcome to Grand Vista Hotel. Sure, I can help you with your booking. May I know your check-in and check-out dates?"

\* BOOKING FLOW (MANDATORY) of the instructions; step 8 is the book_room call
BOOKING_FLOW == << "Greet first",
                   "Ask check-in and check-out dates",
                   "Ask number of beds",
                   "Quote price",
                   "Ask guest name",
                   "Ask phone number",
                   "Repeat booking summary",
                   "book_room",
                   "Say goodbye politely" >>

(* ------------------- GOOGLE_CREDENTIALS_JSON and json ------------------ *)

\* The text of the variable is a sequence of lexical tokens:
\*   "{" "}"   braces
\*   "K"       the members of a complete service-account key
\*             ("client_email": .., "token_uri": .., "private_key": ..)
\*   "1"       a number
\*   "NaN"     the literal NaN
\*   "x"       a character that starts no JSON token (as in not-json)
EnvTexts == { <<>>, <<"x">>, <<"1">>, <<"NaN">>, <<"{">>, <<"{", "}">>,
              <<"{", "K", "}">>, <<"{", "K", "}", "x">>, <<"{", "x", "}">> }

EnvValues == { [set |-> FALSE, text |-> <<>>] } \cup
             { [set |-> TRUE, text |-> t] : t \in EnvTexts }

\* os.getenv called with a default text, "{}", for the unset variable
Getenv_Default(e) == IF e.set THEN [isNone |-> FALSE, str |-> e.text]
                     ELSE [isNone |-> FALSE, str |-> <<"{", "}">>]

\* os.getenv: None when the variable is unset, its text otherwise
Getenv(e) == IF e.set THEN [isNone |-> FALSE, str |-> e.text]
             ELSE [isNone |-> TRUE, str |-> <<>>]

\* Python truth value of "not v" for v None or a str
Not(v) == v.isNone \/ v.str = <<>>

\* one JSON value starting at token i: [ok, next, val]; allowNaN is the
\* decoder's acceptance of the NaN literal
ParseValue(t, i, allowNaN) ==
  IF i > Len(t) THEN [ok |-> FALSE, next |-> i, val |-> "none"]
  ELSE IF t[i] = "1" THEN [ok |-> TRUE, next |-> i + 1, val |-> "number"]
  ELSE IF t[i] = "NaN" /\ allowNaN THEN [ok |-> TRUE, next |-> i + 1, val |-> "nan"]
  ELSE IF t[i] = "{" /\ i + 1 <= Len(t) /\ t[i + 1] = "}"
       THEN [ok |-> TRUE, next |-> i + 2, val |-> "empty_dict"]
  ELSE IF t[i] = "{" /\ i + 2 <= Len(t) /\ t[i + 1] = "K" /\ t[i + 2] = "}"
       THEN [ok |-> TRUE, next |-> i + 3, val |-> "key_dict"]
  ELSE [ok |-> FALSE, next |-> i, val |-> "none"]

\* a document: one value and nothing after it
ParseDocument(t, allowNaN) ==
  LET r == ParseValue(t, 1, allowNaN)
  IN IF r.ok /\ r.next = Len(t) + 1 THEN [ok |-> TRUE, val |-> r.val]
     ELSE [ok |-> FALSE, val |-> "none"]

\* json.loads with the default decoder, which accepts NaN; ok = FALSE is
\* JSONDecodeError
JsonLoads(t) == ParseDocument(t, TRUE)

\* Credentials.from_service_account_info: succeeds on a dict that holds the
\* key's fields, raises (ValueError, AttributeError) on anything else
FromServiceAccountInfo(val) == val = "key_dict"

(* ----------------------------- book_room ------------------------------ *)

\* what the LLM may pass: nothing is validated, so an empty phone number and
\* three beds are among the inputs
ArgTuples == { [guest_name |-> "Rahul Sharma", phone |-> "9999999999",
                check_in |-> "12 March", check_out |-> "14 March", beds |-> 2],
               [guest_name |-> "Asha Rao", phone |-> "",
                check_in |-> "1 May", check_out |-> "2 May", beds |-> 3] }

NoArgs == [guest_name |-> "", phone |-> "", check_in |-> "", check_out |-> "", beds |-> 0]

\* the list with the two dates exchanged
RowOf_DatesSwapped(a) == <<a.guest_name, a.phone, a.check_out, a.check_in, a.beds>>

\* the list given to append_row
RowOf(a) == <<a.guest_name, a.phone, a.check_in, a.check_out, a.beds>>

\* the spreadsheet and worksheet the row goes to: client.open(SHEET_NAME).sheet1
TargetTitle == SHEET_NAME
TargetWorksheet == 1

\* what an external call may raise: any Exception, among them requests'
\* JSONDecodeError (a subclass of json.JSONDecodeError, raised by
\* response.json() on a response body that is not JSON)
Raisable == {"Exception", "JSONDecodeError"}

\* the clauses in the other order: except Exception first, so that it takes all
ExceptHandler_CatchAllFirst(exc) == MSG_GENERIC

\* no except Exception clause: anything but JSONDecodeError leaves the action
ExceptHandler_NoCatchAll(exc) == IF exc = "JSONDecodeError" THEN MSG_INVALID ELSE "raised"

\* the except clauses of book_room, in order
ExceptHandler(exc) == IF exc = "JSONDecodeError" THEN MSG_INVALID ELSE MSG_GENERIC

Idle == [pc |-> "idle", id |-> 0, args |-> NoArgs, calls |-> <<>>,
         failed |-> "none", result |-> "none"]

Called(s, step) == [bk EXCEPT ![s].calls = Append(@, step)]

\* the caller is heard, and the LLM answers, once the handler has connected
InCall(s) == connected[s]

\* lines 80-113: the invocation up to the credentials object (no external call)
BookRoom(s, a) ==
  /\ InCall(s)
  /\ bk[s].pc = "idle"
  /\ nextId <= MaxBookings
  /\ Len(conv[s]) < MaxTurns
  /\ nextId' = nextId + 1
  /\ conv' = [conv EXCEPT ![s] = Append(@, "book_room")]
  /\ LET json_creds_string == Getenv(env)
         start == [Idle EXCEPT !.id = nextId, !.args = a]
     IN IF Not(json_creds_string)
        THEN bk' = [bk EXCEPT ![s] = [start EXCEPT !.pc = "done", !.failed = "getenv",
                                        !.result = MSG_MISSING]]
        ELSE LET creds_dict == JsonLoads(json_creds_string.str)
             IN IF ~creds_dict.ok
                THEN bk' = [bk EXCEPT ![s] = [start EXCEPT !.pc = "done",
                                                !.failed = "json",
                                                !.result = ExceptHandler("JSONDecodeError")]]
                ELSE IF ~FromServiceAccountInfo(creds_dict.val)
                THEN bk' = [bk EXCEPT ![s] = [start EXCEPT !.pc = "done",
                                                !.failed = "credentials",
                                                !.result = ExceptHandler("Exception")]]
                ELSE bk' = [bk EXCEPT ![s] = [start EXCEPT !.pc = "authorize"]]
  /\ UNCHANGED <<env, store, ip, events, room, said, connected, nc, pkind>>

\* line 114: gspread.authorize(creds)
Authorize(s, exc) ==
  /\ bk[s].pc = "authorize"
  /\ IF exc = "none"
     THEN bk' = [Called(s, "authorize") EXCEPT ![s].pc = "open"]
     ELSE bk' = [Called(s, "authorize") EXCEPT ![s].pc = "done", ![s].failed = "authorize",
                                                ![s].result = ExceptHandler(exc)]
  /\ UNCHANGED <<env, store, nextId, ip, events, room, said, connected, nc, pkind, conv>>

\* line 117: client.open(SHEET_NAME).sheet1
OpenSheet(s, exc) ==
  /\ bk[s].pc = "open"
  /\ IF exc = "none"
     THEN bk' = [Called(s, "open") EXCEPT ![s].pc = "append"]
     ELSE bk' = [Called(s, "open") EXCEPT ![s].pc = "done", ![s].failed = "open",
                                           ![s].result = ExceptHandler(exc)]
  /\ UNCHANGED <<env, store, nextId, ip, events, room, said, connected, nc, pkind, conv>>

\* insert_row at index 1 in place of append_row
Appended_InsertFirst(st, title, ws, entry) == [st EXCEPT ![title][ws] = <<entry>> \o @]

\* the worksheet after the service has applied one append request
Appended(st, title, ws, entry) == [st EXCEPT ![title][ws] = Append(@, entry)]

\* lines 118-121: sheet.append_row([...]) and the success return. The request
\* either reaches the service (written) or not; an exception after the
\* service applied it (a lost or unparsable response) leaves the row written.
AppendRow(s, exc, written) ==
  /\ bk[s].pc = "append"
  /\ exc = "none" => written
  /\ store' = IF written
              THEN Appended(store, TargetTitle, TargetWorksheet,
                            [row |-> RowOf(bk[s].args), by |-> bk[s].id])
              ELSE store
  /\ IF exc = "none"
     THEN bk' = [Called(s, "append") EXCEPT ![s].pc = "done", ![s].result = MSG_SUCCESS]
     ELSE bk' = [Called(s, "append") EXCEPT ![s].pc = "done", ![s].failed = "append",
                                             ![s].result = ExceptHandler(exc)]
  /\ UNCHANGED <<env, nextId, ip, events, room, said, connected, nc, pkind, conv>>

\* the result string is handed back to the LLM; the tool can be called again
Return(s) ==
  /\ bk[s].pc = "done"
  /\ bk' = [bk EXCEPT ![s] = Idle]
  /\ UNCHANGED <<env, store, nextId, ip, events, room, said, connected, nc, pkind, conv>>

(* ------------------------------ my_agent ------------------------------ *)

\* connect before the greeting
Program_ConnectFirst == <<"start", "connect", "say">>

\* the awaited statements of the handler, lines 164, 177, 183
Program == <<"start", "say", "connect">>

ParticipantKinds == {"STANDARD", "INGRESS", "EGRESS", "SIP", "AGENT"}

\* the generic filter for every participant
NoiseCancellation_AlwaysBVC(kind) == "BVC"

\* the noise_cancellation lambda of the room options, lines 169-171
NoiseCancellation(kind) == IF kind = "SIP" THEN "BVCTelephony" ELSE "BVC"

\* ctx.room of the job that serves session s
RoomOf(s) == s

\* a statement that raises ends the handler (ip = 0)
Advance(s, stmt, ok) ==
  /\ ip[s] \in 1..Len(Program)
  /\ Program[ip[s]] = stmt
  /\ events' = [events EXCEPT ![s] = Append(@, stmt)]
  /\ ip' = [ip EXCEPT ![s] = IF ok THEN @ + 1 ELSE 0]

\* lines 164-174: await session.start(agent, room=ctx.room, room_options)
SessionStart(s, ok) ==
  /\ Advance(s, "start", ok)
  /\ room' = [room EXCEPT ![s] = IF ok THEN RoomOf(s) ELSE @]
  /\ UNCHANGED <<env, store, nextId, bk, said, connected, nc, pkind, conv>>

\* lines 177-181: await session.say(greeting)
SessionSay(s, ok) ==
  /\ Advance(s, "say", ok)
  /\ said' = [said EXCEPT ![s] = IF ok THEN Append(@, GREETING) ELSE @]
  /\ UNCHANGED <<env, store, nextId, bk, room, connected, nc, pkind, conv>>

\* line 183: await ctx.connect()
CtxConnect(s, ok) ==
  /\ Advance(s, "connect", ok)
  /\ connected' = [connected EXCEPT ![s] = ok]
  /\ UNCHANGED <<env, store, nextId, bk, room, said, nc, pkind, conv>>

\* the room input asks the selector for the filter of a participant's audio
ParticipantAudio(s, kind) ==
  /\ InCall(s)
  /\ pkind[s] = "none"
  /\ pkind' = [pkind EXCEPT ![s] = kind]
  /\ nc' = [nc EXCEPT ![s] = NoiseCancellation(kind)]
  /\ UNCHANGED <<env, store, nextId, bk, ip, events, room, said, connected, conv>>

\* the LLM speaks one step of the flow: the instructions (lines 56-70) are
\* text handed to the LLM, and no code constrains which step it takes
LLMSpeak(s, step) ==
  /\ InCall(s)
  /\ bk[s].pc = "idle"
  /\ Len(conv[s]) < MaxTurns
  /\ step # "book_room"
  /\ conv' = [conv EXCEPT ![s] = Append(@, step)]
  /\ UNCHANGED <<env, store, nextId, bk, ip, events, room, said, connected, nc, pkind>>

(* --------------------------- specifications --------------------------- *)

Init ==
  /\ env \in EnvValues
  /\ store = [t \in Titles |-> << <<>>, <<>> >>]
  /\ nextId = 1
  /\ bk = [s \in Sessions |-> Idle]
  /\ ip = [s \in Sessions |-> 1]
  /\ events = [s \in Sessions |-> <<>>]
  /\ room = [s \in Sessions |-> 0]
  /\ said = [s \in Sessions |-> <<>>]
  /\ connected = [s \in Sessions |-> FALSE]
  /\ nc = [s \in Sessions |-> "none"]
  /\ pkind = [s \in Sessions |-> "none"]
  /\ conv = [s \in Sessions |-> <<>>]

Handler(s) ==
  \/ \E ok \in BOOLEAN : SessionStart(s, ok)
  \/ \E ok \in BOOLEAN : SessionSay(s, ok)
  \/ \E ok \in BOOLEAN : CtxConnect(s, ok)

Tool(s) ==
  \/ \E a \in ArgTuples : BookRoom(s, a)
  \/ \E exc \in {"none", "Exception"} : Authorize(s, exc)
  \/ \E exc \in {"none"} \cup Raisable : OpenSheet(s, exc)
  \/ \E exc \in {"none"} \cup Raisable, written \in BOOLEAN : AppendRow(s, exc, written)
  \/ Return(s)

\* the server: concurrent sessions, each with its handler and its tool calls
Next == \E s \in Sessions : Handler(s) \/ Tool(s)

Spec == Init /\ [][Next]_vars

\* one call end to end: the handler, the participant's audio, the LLM's turns
ObservedCalls == {1}

CallNext ==
  \E s \in ObservedCalls :
    \/ Handler(s)
    \/ Tool(s)
    \/ \E kind \in ParticipantKinds : ParticipantAudio(s, kind)
    \/ \E i \in 1..Len(BOOKING_FLOW) : LLMSpeak(s, BOOKING_FLOW[i])

SpecCall == Init /\ [][CallNext]_vars

(* ------------------------------- claims ------------------------------- *)

IsPrefix(p, q) == Len(p) <= Len(q) /\ \A i \in 1..Len(p) : p[i] = q[i]

WorksheetsOf(t) == 1..Len(store[t])

\* where the rows written by invocation id are: <<title, worksheet, index>>
PlacesOf(id) ==
  { pl \in UNION { {t} \X UNION { {w} \X (1..Len(store[t][w])) : w \in WorksheetsOf(t) }
                   : t \in Titles } :
      store[pl[1]][pl[2][1]][pl[2][2]].by = id }

Errors == {MSG_MISSING, MSG_INVALID, MSG_GENERIC}

\* C1: with a valid credential text and every external call succeeding, an
\* invocation with any argument tuple (an empty phone and three beds among
\* them) has appended exactly one row, guest_name, phone, check_in,
\* check_out, beds in that order, to the first worksheet of the spreadsheet
\* "Hotel booking" and to no other, and returns the success string.
C1_OneRowAndSuccess ==
  \A s \in Sessions :
    (bk[s].pc = "done" /\ bk[s].failed = "none") =>
      /\ bk[s].result = "Booking successfully saved to the system."
      /\ bk[s].calls = <<"authorize", "open", "append">>
      /\ Cardinality(PlacesOf(bk[s].id)) = 1
      /\ \A pl \in PlacesOf(bk[s].id) :
           /\ pl[1] = "Hotel booking"
           /\ pl[2][1] = 1
           /\ LET row == store[pl[1]][pl[2][1]][pl[2][2]].row
              IN /\ Len(row) = 5
                 /\ row[1] = bk[s].args.guest_name
                 /\ row[2] = bk[s].args.phone
                 /\ row[3] = bk[s].args.check_in
                 /\ row[4] = bk[s].args.check_out
                 /\ row[5] = bk[s].args.beds

C1_Witness ==
  \E s \in Sessions :
    /\ bk[s].pc = "done" /\ bk[s].failed = "none"
    /\ bk[s].args.beds = 3 /\ bk[s].args.phone = ""
    /\ Len(store[SHEET_NAME][1]) = 2

\* C2: with GOOGLE_CREDENTIALS_JSON unset, no invocation makes an external
\* call (authorize, open, append), the worksheets stay as they were, and every
\* invocation returns the missing-credentials message.
C2_UnsetNoCallMissing ==
  ~env.set =>
    /\ \A s \in Sessions :
         /\ bk[s].calls = <<>>
         /\ bk[s].pc \in {"idle", "done"}
         /\ bk[s].pc = "done" =>
              bk[s].result = "Error: System configuration error (Missing Credentials)."
    /\ \A t \in Titles : \A w \in WorksheetsOf(t) : store[t][w] = <<>>

C2_Witness == ~env.set /\ \E s \in Sessions : bk[s].pc = "done"

\* strict JSON: no NaN literal
ValidJson(t) == ParseDocument(t, FALSE).ok

NoCallInvalid ==
  /\ \A s \in Sessions :
       /\ bk[s].calls = <<>>
       /\ bk[s].pc \in {"idle", "done"}
       /\ bk[s].pc = "done" =>
            /\ bk[s].result = "Error: System configuration error (Invalid Credentials)."
            /\ bk[s].result # MSG_MISSING
  /\ \A t \in Titles : \A w \in WorksheetsOf(t) : store[t][w] = <<>>

\* C3 as stated: with the variable set to any text that is not valid JSON, no
\* invocation makes an external call, the worksheets stay as they were, and
\* every invocation returns the invalid-credentials message.
C3_AnyNonJsonText == (env.set /\ ~ValidJson(env.text)) => NoCallInvalid

\* C3 amended: the same for every non-empty text that json.loads rejects
\* (json.loads accepts JSON and the literal NaN); the message differs from the
\* missing-credentials message.
C3_RejectedNonEmptyText ==
  (env.set /\ env.text # <<>> /\ ~ParseDocument(env.text, TRUE).ok) => NoCallInvalid

C3_Witness ==
  /\ env.set /\ env.text = <<"{", "K", "}", "x">>
  /\ \E s \in Sessions : bk[s].pc = "done"

NoRepeat(q) == \A i, j \in 1..Len(q) : q[i] = q[j] => i = j

\* C4: when the credential text parses as JSON and a later step fails
\* (building the credentials, authorize, open, append), the invocation has
\* stopped at that step, made no later call and repeated none, and returns the
\* generic failure message.
C4_LaterFailureGeneric ==
  \A s \in Sessions :
    (bk[s].pc = "done" /\ bk[s].failed \in {"credentials", "authorize", "open", "append"}) =>
      /\ bk[s].result = "An error occurred while saving the booking."
      /\ NoRepeat(bk[s].calls)
      /\ IsPrefix(bk[s].calls, <<"authorize", "open", "append">>)
      /\ bk[s].failed = "credentials" => bk[s].calls = <<>>
      /\ bk[s].failed # "credentials" => bk[s].calls[Len(bk[s].calls)] = bk[s].failed

\* C5: every invocation ends with one of the four result strings; nothing
\* raised inside the action leaves it.
C5_AlwaysAResultString ==
  \A s \in Sessions :
    /\ bk[s].pc \in {"idle", "authorize", "open", "append", "done"}
    /\ bk[s].pc = "done" =>
         bk[s].result \in { "Booking successfully saved to the system.",
                            "Error: System configuration error (Missing Credentials).",
                            "Error: System configuration error (Invalid Credentials).",
                            "An error occurred while saving the booking." }
    /\ bk[s].pc # "done" => bk[s].result = "none"

C5_Witness ==
  \E s \in Sessions :
    bk[s].pc = "done" /\ bk[s].failed = "append" /\ bk[s].result \in Errors

\* C7: in every run of the handler the session is started bound to the call's
\* room, then the greeting is said once, then the handler connects: connect
\* never comes before the completed greeting, and there is no second greeting.
C7_StartGreetConnect ==
  \A s \in Sessions :
    /\ IsPrefix(events[s], <<"start", "say", "connect">>)
    /\ Len(said[s]) <= 1
    /\ \A i \in 1..Len(said[s]) : said[s][i] = GREETING
    /\ Len(events[s]) >= 2 => room[s] = s
    /\ Len(events[s]) = 3 => said[s] = <<GREETING>>
    /\ connected[s] => (events[s] = <<"start", "say", "connect">> /\ said[s] = <<GREETING>>)

C7_Witness == \E s \in Sessions : connected[s] /\ Len(said[s]) = 1

FlowIndex(step) == CHOOSE i \in 1..Len(BOOKING_FLOW) : BOOKING_FLOW[i] = step

\* C8: in every conversation the steps come in the flow's order with none
\* skipped; book_room is invoked only after the phone number was asked and the
\* summary repeated once, and at most once.
C8_FlowOrderKept ==
  \A s \in Sessions :
    /\ \A i \in 1..(Len(conv[s]) - 1) :
         FlowIndex(conv[s][i + 1]) = FlowIndex(conv[s][i]) + 1
    /\ \A p \in 1..Len(conv[s]) :
         conv[s][p] = "book_room" =>
           /\ \E q \in 1..(p - 1) : conv[s][q] = "Ask phone number"
           /\ Cardinality({q \in 1..(p - 1) : conv[s][q] = "Repeat booking summary"}) = 1
    /\ Cardinality({p \in 1..Len(conv[s]) : conv[s][p] = "book_room"}) <= 1

\* C9: the noise-cancellation filter chosen for a participant depends on the
\* participant kind alone: BVCTelephony for SIP, BVC for every other kind.
C9_SelectorByKind ==
  \A s \in Sessions :
    /\ pkind[s] = "none" <=> nc[s] = "none"
    /\ pkind[s] = "SIP" => nc[s] = "BVCTelephony"
    /\ pkind[s] \in {"STANDARD", "INGRESS", "EGRESS", "AGENT"} => nc[s] = "BVC"

C9_Witness == \E s \in Sessions : pkind[s] = "SIP" /\ nc[s] = "BVCTelephony"

TargetRows == store[SHEET_NAME][1]

\* C10 as stated: an invocation that returned the success string has added
\* exactly one row, and one that returned an error string has added none.
C10_ErrorsAddNothing ==
  \A s \in Sessions :
    bk[s].pc = "done" =>
      /\ bk[s].result = MSG_SUCCESS => Cardinality(PlacesOf(bk[s].id)) = 1
      /\ bk[s].result \in Errors => Cardinality(PlacesOf(bk[s].id)) = 0

\* C10 amended: in every step every worksheet keeps the rows it had, in place;
\* a step adds a row only when an invocation ends in its append call, and then
\* at most one; an invocation that ends with the success string adds exactly
\* its own row at the end of the worksheet, whatever rows are there already
\* (an identical one included); an invocation that ends with an error string
\* before its append call adds none.
C10_Growth ==
  LET ending == {s \in Sessions : bk[s].pc # "done" /\ bk'[s].pc = "done"}
  IN /\ \A t \in Titles : \A w \in WorksheetsOf(t) :
          /\ Len(store'[t]) = Len(store[t])
          /\ IsPrefix(store[t][w], store'[t][w])
          /\ (t # "Hotel booking" \/ w # 1) => store'[t][w] = store[t][w]
     /\ Len(TargetRows') - Len(TargetRows) <= 1
     /\ TargetRows' # TargetRows =>
          \E s \in ending : bk'[s].calls = <<"authorize", "open", "append">>
     /\ \A s \in ending :
          /\ bk'[s].result = "Booking successfully saved to the system." =>
               /\ Len(TargetRows') = Len(TargetRows) + 1
               /\ TargetRows'[Len(TargetRows')].row =
                    << bk'[s].args.guest_name, bk'[s].args.phone, bk'[s].args.check_in,
                       bk'[s].args.check_out, bk'[s].args.beds >>
               /\ TargetRows'[Len(TargetRows')].by = bk'[s].id
          /\ (bk'[s].result \in Errors /\ bk'[s].failed # "append") => store' = store

C10_AppendOnly == [][C10_Growth]_vars

\* two successful invocations with the same arguments: two identical rows
C10_Witness ==
  /\ Len(TargetRows) >= 2
  /\ TargetRows[1].row = TargetRows[2].row
  /\ TargetRows[1].by # TargetRows[2].by
  /\ \E s \in Sessions : bk[s].pc = "done" /\ bk[s].result = MSG_SUCCESS /\ bk[s].id = TargetRows[2].by

====
